---- MODULE Spec2Model ----
(***************************************************************************)
(* Ride-hailing dispatch simulation: the per-tick step function            *)
(* simulate_step of phase1/sim_mod.py over the state dictionary built by   *)
(* init_state from the lists that phase1/io_mod.py loads.                  *)
(*                                                                         *)
(* Coordinates are floats in the program; the model draws them from a      *)
(* small set of integer grid points.  Python's None is the value None      *)
(* below; ids, coordinates and times of the model are all >= 0, so None    *)
(* is distinct from every one of them.  The driver fields vx, vy, speed    *)
(* and the request field t_wait are never read or written by               *)
(* simulate_step and are left out.                                         *)
(***************************************************************************)
EXTENDS Integers, Sequences, FiniteSets, TLC

\* ------------------------------------------------------------------------
\* Bounds of the model
\* ------------------------------------------------------------------------
MaxDrivers == 2
MaxLoaded == 2
MaxRequests == 3
MaxT == 3
MaxTimeout == 1
MaxReqTime == 2
MaxLines == 2
MaxHorizon == 1
MaxAppDrivers == 1
MaxAppLoaded == 1

\* Python's None
None == 0 - 1

\* Grid points that driver positions are drawn from (the two points of the
\* worked example: (0,0) and (5,5)), and the <<pickup, dropoff>> pairs that
\* requests are drawn from (the worked example's and its reverse).
Points == {<<0, 0>>, <<5, 5>>}

Routes == {<<<<0, 0>>, <<5, 5>>>>, <<<<5, 5>>, <<0, 0>>>>}

Timeouts == 0..MaxTimeout
ReqTimes == 0..MaxReqTime

\* tol=0.5 of close_enough, as the fraction TolNum/TolDen
TolNum == 1
TolDen == 2

VARIABLES
    state,   \* the simulation state dictionary
    pre,     \* the state dictionary as it was when the last call was entered
    mid,     \* the state dictionary as the last call's assignment phase left it
    raised,  \* the exception the last call ended with, or "none"
    ret,     \* what the last call returned
    calls,   \* number of simulate_step calls made so far
    changes, \* the status assignments of the last call that changed a status,
             \* each as <<list position, status before, status after>>
    io,      \* the text of the two input files and what the loaders made of it
    app,     \* the UI runtime state APP.rt, the Run button's label, and what
             \* the last handler did
    movement, \* what the movement loop of the last call did: the targets it
             \* chose, each as <<driver position, request position, status of
             \* the request, target>>, and its pickup and delivery events,
             \* each as <<driver position, request position, new status>>
    plot     \* what _adapter_plot_data returned last

vars == <<state, pre, mid, raised, ret, calls, changes, io, app, movement, plot>>

\* ------------------------------------------------------------------------
\* io_mod: loaders
\* ------------------------------------------------------------------------
\* One well-formed line "x,y" of the drivers file, loaded as driver number i.
driver_dict(i, p) ==
    [id |-> i, x |-> p[1], y |-> p[2], tx |-> None, ty |-> None, target_id |-> None]

\* lines: a sequence of points; ids count the drivers loaded so far from 0.
load_drivers(lines) ==
    [i \in 1..Len(lines) |-> driver_dict(i - 1, lines[i])]

\* One well-formed line "t,px,py,dx,dy" of the requests file.
request_dict(i, t, p, d) ==
    [id |-> i, px |-> p[1], py |-> p[2], dx |-> d[1], dy |-> d[2],
     t |-> t, status |-> "waiting", driver_id |-> None]

load_requests(lines) ==
    [i \in 1..Len(lines) |-> request_dict(i - 1, lines[i].t, lines[i].p, lines[i].d)]

\* ------------------------------------------------------------------------
\* io_mod: the loaders over the text of a file.  A line is blank, a comment
\* (it starts with '#'), or anything else, which split(",") cuts into one or
\* more parts; a part is text that float() converts, or text that it rejects.
\* ------------------------------------------------------------------------
Num(v) == [num |-> TRUE, val |-> v]
Text == [num |-> FALSE, val |-> 0]

Blank == [kind |-> "blank", parts |-> <<>>]
Comment == [kind |-> "comment", parts |-> <<>>]
Fields(parts) == [kind |-> "fields", parts |-> parts]

\* if not line or line.startswith("#"): continue
\* if len(parts) < n: continue
Skipped(line, n) ==
    \/ line.kind \in {"blank", "comment"}
    \/ Len(line.parts) < n

\* the lines that reach the conversions, in file order
Rows(file, n) == SelectSeq(file, LAMBDA line : ~Skipped(line, n))

\* float() / int(float()) of each of the first n parts; a part that is not a
\* number makes the conversion raise ValueError
Converts(line, n) == \A k \in 1..n : line.parts[k].num

\* what a call of a loader gives its caller
Returned(value) == [raised |-> "none", value |-> value]
Raised(exception) == [raised |-> exception, value |-> <<>>]

\* load_drivers(path) on a file with these lines
load_drivers_file(file) ==
    LET rows == Rows(file, 2) IN
    IF \A i \in DOMAIN rows : Converts(rows[i], 2)
        THEN Returned(load_drivers([i \in DOMAIN rows |->
                        <<rows[i].parts[1].val, rows[i].parts[2].val>>]))
        ELSE Raised("ValueError")

\* load_requests(path) on a file with these lines
load_requests_file(file) ==
    LET rows == Rows(file, 5) IN
    IF \A i \in DOMAIN rows : Converts(rows[i], 5)
        THEN Returned(load_requests([i \in DOMAIN rows |->
                        [t |-> rows[i].parts[1].val,
                         p |-> <<rows[i].parts[2].val, rows[i].parts[3].val>>,
                         d |-> <<rows[i].parts[4].val, rows[i].parts[5].val>>]]))
        ELSE Raised("ValueError")

\* ------------------------------------------------------------------------
\* sim_mod: init_state
\* ------------------------------------------------------------------------
init_state(drivers, requests, timeout) ==
    [t |-> 0, drivers |-> drivers, pending |-> requests, served |-> 0,
     expired |-> 0, timeout |-> timeout, served_waits |-> <<>>]

\* ------------------------------------------------------------------------
\* generate_requests(start_t, out_list, req_rate, width, height): appends the
\* newly generated requests to out_list.  The set of lists it can leave
\* behind: no arrival, or one arrival with any pickup and dropoff.
\* ------------------------------------------------------------------------
generate_requests(start_t, out_list) ==
    {out_list} \cup
    (IF Len(out_list) < MaxRequests
        THEN {Append(out_list, request_dict(Len(out_list), start_t, r[1], r[2])) :
                 r \in Routes}
        ELSE {})

\* ------------------------------------------------------------------------
\* sim_mod: helpers move_driver and close_enough
\* ------------------------------------------------------------------------
\* The body of move_driver is its docstring only: the driver is not changed.
move_driver(driver, target) == driver

\* Variant of close_enough: the distance test that its docstring describes.
close_enough_by_distance(driver, target) ==
    ((driver.x - target[1]) * (driver.x - target[1])
        + (driver.y - target[2]) * (driver.y - target[2])) * TolDen * TolDen
      < TolNum * TolNum

\* The body of close_enough is its docstring only: it returns None, which
\* every caller reads as false.
close_enough(driver, target) == FALSE

\* the statuses that differ between two states of the same call
StatusChanges(a, b) ==
    {<<i, a.pending[i].status, b.pending[i].status>> :
        i \in {k \in DOMAIN a.pending : a.pending[k].status # b.pending[k].status}}

\* ------------------------------------------------------------------------
\* sim_mod: simulate_step, expiration phase
\* ------------------------------------------------------------------------
\* Variants of Expires: the status test narrowed to waiting, and the age test
\* with >= in place of >.
Expires_waiting_only(req, t, timeout) ==
    /\ req.status = "waiting"
    /\ t - req.t > timeout

Expires_at_timeout(req, t, timeout) ==
    /\ req.status \in {"waiting", "assigned"}
    /\ t - req.t >= timeout

\* Variant of Expires: a request that is already expired qualifies again.
Expires_again(req, t, timeout) ==
    /\ req.status \in {"waiting", "assigned", "expired"}
    /\ t - req.t > timeout

Expires(req, t, timeout) ==
    /\ req.status \in {"waiting", "assigned"}
    /\ t - req.t > timeout

\* Variant of expire_requests: the loop stops at the first request it expires.
expire_requests_first_only(s) ==
    LET due == {i \in DOMAIN s.pending : Expires(s.pending[i], s.t, s.timeout)} IN
    IF due = {} THEN s
    ELSE LET j == CHOOSE i \in due : \A k \in due : i <= k
         IN [s EXCEPT !.pending[j].status = "expired", !.expired = @ + 1]

\* Variant of expire_requests: the expiries are added to served instead of
\* expired.
expire_requests_counting_served(s) ==
    [s EXCEPT
        !.pending = [i \in DOMAIN s.pending |->
                        IF Expires(s.pending[i], s.t, s.timeout)
                            THEN [s.pending[i] EXCEPT !.status = "expired"]
                            ELSE s.pending[i]],
        !.served = @ + Cardinality({i \in DOMAIN s.pending :
                                       Expires(s.pending[i], s.t, s.timeout)})]

expire_requests(s) ==
    [s EXCEPT
        !.pending = [i \in DOMAIN s.pending |->
                        IF Expires(s.pending[i], s.t, s.timeout)
                            THEN [s.pending[i] EXCEPT !.status = "expired"]
                            ELSE s.pending[i]],
        !.expired = @ + Cardinality({i \in DOMAIN s.pending :
                                        Expires(s.pending[i], s.t, s.timeout)})]

\* ------------------------------------------------------------------------
\* sim_mod: simulate_step, assignment phase
\* ------------------------------------------------------------------------
\* Variant of IsIdle: the target_id test dropped.
IsIdle_always(driver) == TRUE

IsIdle(driver) == driver.target_id = None

\* Variant of Assignable: every request that is not assigned qualifies.
Assignable_not_assigned(req) == req.status # "assigned"

Assignable(req) == req.status = "waiting"

\* Variant of first_match: the last qualifying request instead of the first.
last_match(pending) ==
    IF \E j \in DOMAIN pending : Assignable(pending[j])
        THEN CHOOSE j \in DOMAIN pending :
                /\ Assignable(pending[j])
                /\ \A k \in (j + 1)..Len(pending) : ~Assignable(pending[k])
        ELSE 0

\* index of the first request of the list the inner loop stops at, 0 if none
first_match(pending) ==
    IF \E j \in DOMAIN pending : Assignable(pending[j])
        THEN CHOOSE j \in DOMAIN pending :
                /\ Assignable(pending[j])
                /\ \A k \in 1..(j - 1) : ~Assignable(pending[k])
        ELSE 0

\* Variant of assign_driver: the driver's id is written to the request's id
\* instead of its driver_id.
assign_driver_overwriting_id(s, i) ==
    LET j == first_match(s.pending) IN
    IF IsIdle(s.drivers[i]) /\ j # 0
        THEN [s EXCEPT
                !.pending[j].status = "assigned",
                !.pending[j].id = s.drivers[i].id,
                !.drivers[i].target_id = s.pending[j].id,
                !.drivers[i].tx = s.pending[j].px,
                !.drivers[i].ty = s.pending[j].py]
        ELSE s

\* body of the outer loop for the driver at index i
assign_driver(s, i) ==
    LET j == first_match(s.pending) IN
    IF IsIdle(s.drivers[i]) /\ j # 0
        THEN [s EXCEPT
                !.pending[j].status = "assigned",
                !.pending[j].driver_id = s.drivers[i].id,
                !.drivers[i].target_id = s.pending[j].id,
                !.drivers[i].tx = s.pending[j].px,
                !.drivers[i].ty = s.pending[j].py]
        ELSE s

RECURSIVE assign_drivers(_, _)
assign_drivers(s, i) ==
    IF i > Len(s.drivers) THEN s ELSE assign_drivers(assign_driver(s, i), i + 1)

\* the status changes that assign_drivers(s, i) makes, driver by driver
RECURSIVE assign_changes(_, _)
assign_changes(s, i) ==
    IF i > Len(s.drivers) THEN {}
    ELSE StatusChanges(s, assign_driver(s, i))
            \cup assign_changes(assign_driver(s, i), i + 1)

\* ------------------------------------------------------------------------
\* sim_mod: simulate_step, movement / pickup / delivery loop
\* ------------------------------------------------------------------------
\* The loop's local names req and target keep their values from one driver
\* to the next; before the first binding they are unbound.
Unbound == 0 - 2

NoLocals == [req |-> Unbound, target |-> <<>>]

\* next((r for r in pending if r["id"] == target_id), None): the index of the
\* first request with that id, None if there is none
find_request(pending, target_id) ==
    IF \E j \in DOMAIN pending : pending[j].id = target_id
        THEN CHOOSE j \in DOMAIN pending :
                /\ pending[j].id = target_id
                /\ \A k \in 1..(j - 1) : pending[k].id # target_id
        ELSE None

\* pickup while the request is assigned, dropoff in every other status
movement_target(req) ==
    IF req.status = "assigned" THEN <<req.px, req.py>> ELSE <<req.dx, req.dy>>

\* the pickup event and the delivery event, for the driver at index i and
\* the request at index j that the name req is bound to
pickup_or_delivery(s, i, j, target) ==
    IF close_enough(s.drivers[i], target) /\ s.pending[j].status = "assigned"
        THEN [s EXCEPT
                !.pending[j].status = "picked",
                !.drivers[i].tx = s.pending[j].dx,
                !.drivers[i].ty = s.pending[j].dy]
    ELSE IF close_enough(s.drivers[i], target) /\ s.pending[j].status = "picked"
        THEN [s EXCEPT
                !.pending[j].status = "delivered",
                !.served = @ + 1,
                !.served_waits = Append(@, s.t - s.pending[j].t),
                !.drivers[i].target_id = None]
    ELSE s

\* The loop from the driver at index i on, with the locals as they stand.
\* The result is the state the loop leaves, the exception it ended with and
\* the status changes it made.
NoMovement == [targets |-> {}, events |-> {}]

RECURSIVE move_drivers(_, _, _, _, _)
move_drivers(s, i, loc, done, log) ==
    IF i > Len(s.drivers)
        THEN [s |-> s, raised |-> "none", changes |-> done, movement |-> log]
    ELSE
      LET d == s.drivers[i]
          j == find_request(s.pending, d.target_id)
      IN
      IF d.target_id # None /\ j = None
          \* req is None: continue
          THEN move_drivers(s, i + 1, [loc EXCEPT !.req = None], done, log)
      ELSE
        LET loc1 == IF d.target_id # None
                        THEN [req |-> j, target |-> movement_target(s.pending[j])]
                        ELSE loc
            s1 == IF d.target_id # None
                        THEN [s EXCEPT !.drivers[i] = move_driver(d, loc1.target)]
                        ELSE s
            log1 == IF d.target_id # None
                        THEN [log EXCEPT !.targets =
                                 @ \cup {<<i, j, s.pending[j].status, loc1.target>>}]
                        ELSE log
        IN
        IF loc1.target = <<>>
            \* close_enough(driver, target) reads a name that was never bound
            THEN [s |-> s1, raised |-> "UnboundLocalError", changes |-> done,
                  movement |-> log1]
        ELSE IF close_enough(s1.drivers[i], loc1.target) /\ loc1.req = None
            \* req["status"] with req None
            THEN [s |-> s1, raised |-> "TypeError", changes |-> done,
                  movement |-> log1]
        ELSE LET s2 == pickup_or_delivery(s1, i, loc1.req, loc1.target)
                 log2 == [log1 EXCEPT !.events =
                             @ \cup {<<i, c[1], c[3]>> : c \in StatusChanges(s1, s2)}]
             IN move_drivers(s2, i + 1, loc1, done \cup StatusChanges(s1, s2), log2)

\* ------------------------------------------------------------------------
\* sim_mod: simulate_step
\* ------------------------------------------------------------------------
\* The function ends without a return statement: a call that does not raise
\* returns None.
return_value(s) == [kind |-> "None"]

NoValue == [kind |-> "nothing"]

\* Variant of advance_time: the time is set to 1 instead of incremented.
advance_time_set_one(s) == [s EXCEPT !.t = 1]

\* state["t"] += 1
advance_time(s) == [s EXCEPT !.t = @ + 1]

\* The phases after the time advance, for the list out_list that
\* generate_requests left behind.  The dictionary is mutated in place: a
\* call that raises leaves it as the phases before the exception made it,
\* and the caller can call again.
simulate_step_phases(s0, out_list) ==
    LET s1 == [s0 EXCEPT !.pending = out_list]
        s2 == expire_requests(s1)
        s3 == assign_drivers(s2, 1)
        r == move_drivers(s3, 1, NoLocals,
                          StatusChanges(s1, s2) \cup assign_changes(s2, 1), NoMovement)
    IN [s |-> r.s, mid |-> s3, raised |-> r.raised, changes |-> r.changes,
        movement |-> r.movement]

\* The outcomes of one call of simulate_step on the dictionary s.  A
\* dictionary without the keys that init_state adds (timeout is None below)
\* makes the arguments of generate_requests raise KeyError, after the time
\* advance.
simulate_step_outcomes(s) ==
    LET s0 == advance_time(s) IN
    IF s0.timeout = None
        THEN {[s |-> s0, mid |-> s0, raised |-> "KeyError", changes |-> {},
               movement |-> NoMovement]}
        ELSE {simulate_step_phases(s0, out_list) :
                 out_list \in generate_requests(s0.t, s0.pending)}

\* what the call hands to its caller
returned(o) == IF o.raised = "none" THEN return_value(o.s) ELSE NoValue

\* the variables of the simulation over a call with outcome o
call(o) ==
    /\ state' = o.s
    /\ pre' = state
    /\ mid' = o.mid
    /\ raised' = o.raised
    /\ ret' = returned(o)
    /\ changes' = o.changes
    /\ movement' = o.movement
    /\ calls' = calls + 1

simulate_step ==
    /\ state.t < MaxT
    /\ \E o \in simulate_step_outcomes(state) : call(o)
    /\ UNCHANGED <<io, app, plot>>

\* ------------------------------------------------------------------------
\* Specification: init_state over loaded lists, then repeated simulate_step
\* ------------------------------------------------------------------------
\* _adapter_plot_data has not been called
NoPlot == [drivers_xy |-> <<>>, pickup_xy |-> <<>>, dropoff_xy |-> <<>>,
           served |-> 0, expired |-> 0]

\* no file has been handed to a loader
NotLoaded == [raised |-> "not called", value |-> <<>>]

Loaded(result) == result.raised # "not called"

NoFiles == [drivers_txt |-> <<>>, requests_txt |-> <<>>,
            drivers |-> NotLoaded, requests |-> NotLoaded]

\* RuntimeState as it is constructed; no handler has run
DefaultHorizon == 600

NoApp == [running |-> FALSE, label |-> "Run", clock |-> 0, horizon |-> DefaultHorizon,
          alive |-> TRUE, last |-> "none", called |-> FALSE, late |-> FALSE,
          error |-> "none"]

DriverLines == UNION {[1..n -> Points] : n \in 0..MaxDrivers}

RequestLine == {[t |-> t, p |-> r[1], d |-> r[2]] : t \in ReqTimes, r \in Routes}

RequestLines == UNION {[1..n -> RequestLine] : n \in 0..MaxLoaded}

Init ==
    /\ \E dl \in DriverLines, rl \in RequestLines, timeout \in Timeouts :
          state = init_state(load_drivers(dl), load_requests(rl), timeout)
    /\ pre = state
    /\ mid = state
    /\ raised = "none"
    /\ ret = NoValue
    /\ calls = 0
    /\ changes = {}
    /\ movement = NoMovement
    /\ plot = NoPlot
    /\ io = NoFiles
    /\ app = NoApp

Next == simulate_step

Spec == Init /\ [][Next]_vars

\* ------------------------------------------------------------------------
\* Specification: simulate_step called on a state dictionary that its caller
\* hands over in the middle of a run: every request is waiting, assigned or
\* picked; a request that is assigned or picked has a driver of its own,
\* whose target_id is the request's id and whose (tx,ty) is the pickup point
\* (assigned) or the dropoff point (picked); every other driver is idle.
\* ------------------------------------------------------------------------
\* sts[i] is the status of request i, drv[i] the list position of its driver
\* (0: none)
Paired(sts, drv, nd) ==
    /\ \A i \in DOMAIN sts :
          IF sts[i] = "waiting" THEN drv[i] = 0 ELSE drv[i] \in 1..nd
    /\ \A i, j \in DOMAIN sts : (i # j /\ drv[i] # 0) => drv[i] # drv[j]

mid_run_state(s, sts, drv) ==
    [s EXCEPT
        !.pending = [i \in DOMAIN s.pending |->
                        [s.pending[i] EXCEPT
                            !.status = sts[i],
                            !.driver_id = IF drv[i] = 0 THEN None
                                          ELSE s.drivers[drv[i]].id]],
        !.drivers = [k \in DOMAIN s.drivers |->
                        IF \E i \in DOMAIN s.pending : drv[i] = k
                            THEN LET i == CHOOSE i \in DOMAIN s.pending : drv[i] = k
                                     r == s.pending[i]
                                 IN [s.drivers[k] EXCEPT
                                        !.target_id = r.id,
                                        !.tx = IF sts[i] = "assigned" THEN r.px ELSE r.dx,
                                        !.ty = IF sts[i] = "assigned" THEN r.py ELSE r.dy]
                            ELSE s.drivers[k]]]

InitCall ==
    /\ \E dl \in DriverLines, rl \in RequestLines, timeout \in Timeouts :
        \E sts \in [1..Len(rl) -> {"waiting", "assigned", "picked"}],
           drv \in [1..Len(rl) -> 0..Len(dl)] :
          /\ Paired(sts, drv, Len(dl))
          /\ state = mid_run_state(
                        init_state(load_drivers(dl), load_requests(rl), timeout),
                        sts, drv)
    /\ pre = state
    /\ mid = state
    /\ raised = "none"
    /\ ret = NoValue
    /\ calls = 0
    /\ changes = {}
    /\ movement = NoMovement
    /\ plot = NoPlot
    /\ io = NoFiles
    /\ app = NoApp

SpecCall == InitCall /\ [][Next]_vars

\* ------------------------------------------------------------------------
\* Specification: the loaders called on files with well-formed and malformed
\* lines, as the launcher calls them before init_state.
\* ------------------------------------------------------------------------
DriverFileLines ==
    {Blank, Comment, Fields(<<Num(0)>>), Fields(<<Text>>),
     Fields(<<Num(0), Num(0)>>), Fields(<<Num(5), Num(5), Num(0)>>),
     Fields(<<Text, Num(0)>>), Fields(<<Num(5), Text>>)}

RequestFileLines ==
    {Blank, Comment, Fields(<<Num(0), Num(0), Num(0), Num(5)>>),
     Fields(<<Num(0), Num(0), Num(0), Num(5), Num(5)>>),
     Fields(<<Num(1), Num(5), Num(5), Num(0), Num(0), Text>>),
     Fields(<<Num(1), Num(0), Text, Num(5), Num(5)>>)}

Files(lines) == UNION {[1..n -> lines] : n \in 0..MaxLines}

InitLoad ==
    /\ state = init_state(<<>>, <<>>, 0)
    /\ pre = state
    /\ mid = state
    /\ raised = "none"
    /\ ret = NoValue
    /\ calls = 0
    /\ changes = {}
    /\ movement = NoMovement
    /\ plot = NoPlot
    /\ \E d \in Files(DriverFileLines), r \in Files(RequestFileLines) :
          io = [drivers_txt |-> d, requests_txt |-> r,
                drivers |-> NotLoaded, requests |-> NotLoaded]
    /\ app = NoApp

call_load_drivers ==
    /\ ~Loaded(io.drivers)
    /\ io' = [io EXCEPT !.drivers = load_drivers_file(io.drivers_txt)]
    /\ UNCHANGED <<state, pre, mid, raised, ret, calls, changes, app, movement, plot>>

\* the launcher loads the requests after the drivers; an exception of the
\* first loader ends it
call_load_requests ==
    /\ io.drivers.raised = "none"
    /\ ~Loaded(io.requests)
    /\ io' = [io EXCEPT !.requests = load_requests_file(io.requests_txt)]
    /\ UNCHANGED <<state, pre, mid, raised, ret, calls, changes, app, movement, plot>>

NextLoad == call_load_drivers \/ call_load_requests

SpecLoad == InitLoad /\ [][NextLoad]_vars

\* ------------------------------------------------------------------------
\* gui/_engine.py: the UI.  APP.state.sim is the variable state, APP.rt and
\* the label of the Run button are in app.  A handler is an action; the
\* fields last, called, late and error of app record what the last handler
\* was, whether it called simulate_step, whether it did so with the clock at
\* or past the horizon, and the exception it ended with.  An exception in a
\* callback ends the callback and the application goes on; an exception in
\* the main loop leaves run_app and ends the application.
\*
\* The Horizon slider offers 60..1440 and _adapter_init takes any int.  The
\* handlers only compare the clock, which starts at 0, with the horizon, so
\* the model draws the horizon from 1..MaxHorizon.
\* ------------------------------------------------------------------------
Horizons == 1..MaxHorizon

\* the lines of the files that Initialize loads
AppDriverLines == UNION {[1..n -> Points] : n \in 0..MaxAppDrivers}

AppRequestLines == UNION {[1..n -> RequestLine] : n \in 0..MaxAppLoaded}

\* AppSimState.sim as it is constructed: none of the keys timeout, req_rate,
\* width, height and served_waits
default_sim ==
    [t |-> 0, drivers |-> <<>>, pending |-> <<>>, served |-> 0, expired |-> 0,
     timeout |-> None, served_waits |-> <<>>]

\* generate_drivers(n, width, height): n drivers at random positions, each
\* with its own position as (tx,ty)
generate_drivers(n) ==
    {[i \in 1..n |-> [id |-> i - 1, x |-> pos[i][1], y |-> pos[i][2],
                      tx |-> pos[i][1], ty |-> pos[i][2], target_id |-> None]] :
        pos \in [1..n -> Points]}

\* reqs.sort(key=lambda r: r.get("t", 0)): stable, ascending in t
RECURSIVE sorted_upto(_, _)
sorted_upto(reqs, v) ==
    IF v < 0 THEN <<>>
    ELSE sorted_upto(reqs, v - 1) \o SelectSeq(reqs, LAMBDA r : r.t = v)

sort_by_t(reqs) == sorted_upto(reqs, MaxReqTime)

\* the exception that `state, metrics = simulate_step(state)` ends with in
\* the caller: the call's own, or the one of unpacking what it returned
unpacking(o) ==
    IF o.raised # "none" THEN o.raised
    ELSE IF returned(o).kind = "pair" THEN "none"
    ELSE "TypeError"

\* the variables of the simulation over a handler that does not call
\* simulate_step: it found the dictionary as before and leaves s behind
no_call(before, s) ==
    /\ state' = s
    /\ pre' = before
    /\ mid' = s
    /\ raised' = "none"
    /\ ret' = NoValue
    /\ changes' = {}
    /\ movement' = NoMovement
    /\ calls' = calls

done(a, handler) ==
    [a EXCEPT !.last = handler, !.called = FALSE, !.late = FALSE, !.error = "none"]

\* _adapter_init
adapter_init(drivers, reqs, horizon, timeout) ==
    /\ LET s == init_state(drivers, sort_by_t(reqs), timeout) IN no_call(s, s)
    /\ app' = [done(app, "init") EXCEPT !.horizon = horizon, !.clock = 0]

\* _on_init: a loader that raises ends the callback before anything is set
on_init ==
    /\ app.alive
    /\ \/ \E horizon \in Horizons, timeout \in Timeouts :
            \/ \E dl \in AppDriverLines, rl \in AppRequestLines :
                  adapter_init(load_drivers(dl), load_requests(rl), horizon, timeout)
            \/ \E n \in 1..MaxAppDrivers :
                 \E drivers \in generate_drivers(n), reqs \in generate_requests(0, <<>>) :
                    adapter_init(drivers, reqs, horizon, timeout)
       \/ /\ \E file \in Files(DriverFileLines) :
                load_drivers_file(file).raised # "none"
          /\ no_call(state, state)
          /\ app' = [done(app, "init") EXCEPT !.error = "ValueError"]
    /\ UNCHANGED <<io, plot>>

\* _adapter_step and the rest of the handler that called it: the clock is
\* set only when the call and the unpacking of its result succeed
after_step(a, o, handler, fatal) ==
    LET b == [done(a, handler) EXCEPT !.called = TRUE,
                                      !.late = (a.clock >= a.horizon),
                                      !.error = unpacking(o)]
    IN IF unpacking(o) = "none" THEN [b EXCEPT !.clock = o.s.t]
       ELSE [b EXCEPT !.alive = ~fatal]

\* _on_step
on_step ==
    /\ app.alive
    /\ IF app.clock >= app.horizon
          THEN /\ no_call(state, state)
               /\ app' = [done(app, "step") EXCEPT !.running = FALSE, !.label = "Run"]
          ELSE /\ calls < MaxT
               /\ \E o \in simulate_step_outcomes(state) :
                     /\ call(o)
                     /\ app' = after_step(app, o, "step", FALSE)
    /\ UNCHANGED <<io, plot>>

\* _on_run_toggle
on_run_toggle ==
    /\ app.alive
    /\ no_call(state, state)
    /\ app' = IF app.running
                 THEN [done(app, "toggle") EXCEPT !.running = FALSE, !.label = "Run"]
                 ELSE [done(app, "toggle") EXCEPT !.running = TRUE, !.label = "Stop"]
    /\ UNCHANGED <<io, plot>>

\* Variant of adapter_reset: the expired counter is reset with the time.
adapter_reset_counters(s) == [s EXCEPT !.t = 0, !.expired = 0]

\* _adapter_reset: APP.state.t = 0
adapter_reset(s) == [s EXCEPT !.t = 0]

\* _on_reset
on_reset ==
    /\ app.alive
    /\ no_call(state, adapter_reset(state))
    /\ app' = [done(app, "reset") EXCEPT !.running = FALSE, !.label = "Run", !.clock = 0]
    /\ UNCHANGED <<io, plot>>

\* one iteration of the main loop of run_app: a step when the application is
\* running, the clock is below the horizon and the step delay has passed
run_loop ==
    /\ app.alive
    /\ \/ /\ app.running /\ app.clock < app.horizon
          /\ calls < MaxT
          /\ \E o \in simulate_step_outcomes(state) :
                /\ call(o)
                /\ app' = after_step(app, o, "loop", TRUE)
       \/ /\ no_call(state, state)
          /\ app' = done(app, "loop")
    /\ UNCHANGED <<io, plot>>

InitUI ==
    /\ state = default_sim
    /\ pre = state
    /\ mid = state
    /\ raised = "none"
    /\ ret = NoValue
    /\ calls = 0
    /\ changes = {}
    /\ movement = NoMovement
    /\ plot = NoPlot
    /\ io = NoFiles
    /\ app = NoApp

NextUI == on_init \/ on_step \/ on_run_toggle \/ on_reset \/ run_loop

SpecUI == InitUI /\ [][NextUI]_vars

\* ------------------------------------------------------------------------
\* Specification: the UI in the middle of a session, after Initialize, as
\* step calls that returned (state, metrics) leave it: the clock mirrors the
\* time of the simulation state, somewhere up to the horizon, and the
\* application is running or stopped.
\* ------------------------------------------------------------------------
InitSession ==
    /\ \E dl \in AppDriverLines, rl \in AppRequestLines, timeout \in Timeouts,
          horizon \in Horizons, running \in BOOLEAN :
        \E clock \in 0..horizon :
          /\ state = [init_state(load_drivers(dl), sort_by_t(load_requests(rl)), timeout)
                         EXCEPT !.t = clock]
          /\ app = [NoApp EXCEPT !.horizon = horizon, !.clock = clock,
                                 !.running = running,
                                 !.label = IF running THEN "Stop" ELSE "Run"]
    /\ pre = state
    /\ mid = state
    /\ raised = "none"
    /\ ret = NoValue
    /\ calls = 0
    /\ changes = {}
    /\ movement = NoMovement
    /\ plot = NoPlot
    /\ io = NoFiles

NextSession == on_step \/ on_run_toggle \/ on_reset \/ run_loop

SpecSession == InitSession /\ [][NextSession]_vars

\* ------------------------------------------------------------------------
\* gui/_engine.py: _adapter_plot_data, over the simulation dictionary s.  The
\* direction arrows dir_quiver are left out.
\* ------------------------------------------------------------------------
\* Variant of plot_requests: every request that is not waiting or assigned
\* goes to the dropoff list.
RECURSIVE plot_requests_else(_, _, _)
plot_requests_else(pending, i, lists) ==
    IF i > Len(pending) THEN lists
    ELSE LET r == pending[i] IN
         IF r.status \in {"waiting", "assigned"}
             THEN plot_requests_else(pending, i + 1,
                     [lists EXCEPT !.pickup_xy = Append(@, <<r.px, r.py>>)])
         ELSE plot_requests_else(pending, i + 1,
                     [lists EXCEPT !.dropoff_xy = Append(@, <<r.dx, r.dy>>)])

\* the loop over the requests from list position i on
RECURSIVE plot_requests(_, _, _)
plot_requests(pending, i, lists) ==
    IF i > Len(pending) THEN lists
    ELSE LET r == pending[i] IN
         IF r.status \in {"waiting", "assigned"}
             THEN plot_requests(pending, i + 1,
                     [lists EXCEPT !.pickup_xy = Append(@, <<r.px, r.py>>)])
         ELSE IF r.status = "picked"
             THEN plot_requests(pending, i + 1,
                     [lists EXCEPT !.dropoff_xy = Append(@, <<r.dx, r.dy>>)])
         ELSE plot_requests(pending, i + 1, lists)

adapter_plot_data(s) ==
    LET lists == plot_requests(s.pending, 1, [pickup_xy |-> <<>>, dropoff_xy |-> <<>>])
    IN [drivers_xy |-> [k \in DOMAIN s.drivers |-> <<s.drivers[k].x, s.drivers[k].y>>],
        pickup_xy |-> lists.pickup_xy,
        dropoff_xy |-> lists.dropoff_xy,
        served |-> s.served,
        expired |-> s.expired]

\* ------------------------------------------------------------------------
\* Specification: _adapter_plot_data called on a simulation dictionary whose
\* requests are in any of the five statuses.
\* ------------------------------------------------------------------------
Statuses == {"waiting", "assigned", "picked", "delivered", "expired"}

with_statuses(s, sts) ==
    [s EXCEPT
        !.pending = [i \in DOMAIN s.pending |-> [s.pending[i] EXCEPT !.status = sts[i]]],
        !.served = Cardinality({i \in DOMAIN sts : sts[i] = "delivered"}),
        !.expired = Cardinality({i \in DOMAIN sts : sts[i] = "expired"})]

InitPlot ==
    /\ \E dl \in DriverLines, rl \in RequestLines :
        \E sts \in [1..Len(rl) -> Statuses] :
          state = with_statuses(init_state(load_drivers(dl), load_requests(rl), 0), sts)
    /\ pre = state
    /\ mid = state
    /\ raised = "none"
    /\ ret = NoValue
    /\ calls = 0
    /\ changes = {}
    /\ movement = NoMovement
    /\ plot = NoPlot
    /\ io = NoFiles
    /\ app = NoApp

call_adapter_plot_data ==
    /\ plot' = adapter_plot_data(state)
    /\ UNCHANGED <<state, pre, mid, raised, ret, calls, changes, io, app, movement>>

NextPlot == call_adapter_plot_data

SpecPlot == InitPlot /\ [][NextPlot]_vars

\* ------------------------------------------------------------------------
\* Properties.  pre is the state at the entry of the last call and state is
\* what that call left behind; a request keeps its list position, so
\* pre.pending[i] and state.pending[i] are the same request.
\* ------------------------------------------------------------------------
Called == calls > 0

\* requests that were in the list when the last call was entered
Old == DOMAIN pre.pending

\* requests the last call's generate_requests appended
New == DOMAIN state.pending \ DOMAIN pre.pending

Active(req) == req.status \in {"assigned", "picked"}

Age(req) == state.t - req.t

\* the single status changes of the request lifecycle
OneChange ==
    {<<"waiting", "assigned">>, <<"assigned", "picked">>, <<"picked", "delivered">>,
     <<"waiting", "expired">>, <<"assigned", "expired">>}

\* C1: every status change a simulate_step call makes is one of
\* waiting->assigned, assigned->picked, picked->delivered, waiting->expired,
\* assigned->expired, so nothing moves backward; and a request that was
\* delivered or expired when the call was entered still is when it ends.
C1_ForwardOnly ==
    /\ \A c \in changes : <<c[2], c[3]>> \in OneChange
    /\ \A i \in Old :
          pre.pending[i].status \in {"delivered", "expired"}
              => state.pending[i].status = pre.pending[i].status

\* a request that had a driver has just expired, next to one that stays expired
C1_Witness ==
    /\ \E i \in Old : <<pre.pending[i].status, state.pending[i].status>>
                          = <<"assigned", "expired">>
    /\ \E i \in Old : pre.pending[i].status = "expired"

\* C2: every driver id is the driver_id of at most one request whose status
\* is assigned or picked.
C2_OneActivePerDriver ==
    \A k \in DOMAIN state.drivers :
        Cardinality({i \in DOMAIN state.pending :
                        /\ Active(state.pending[i])
                        /\ state.pending[i].driver_id = state.drivers[k].id}) <= 1

\* a call that found a busy driver and a waiting request left the request waiting
C2_Witness ==
    /\ Called
    /\ \E k \in DOMAIN pre.drivers, i \in DOMAIN state.pending :
          /\ pre.drivers[k].target_id # None
          /\ \A m \in DOMAIN pre.drivers : pre.drivers[m].target_id # None
          /\ state.pending[i].status = "waiting"
          /\ \E n \in DOMAIN state.pending :
                /\ Active(state.pending[n])
                /\ state.pending[n].driver_id = state.drivers[k].id

\* the drivers that were idle when the last call reached its assignment phase
IdleAtAssignment == {k \in DOMAIN pre.drivers : pre.drivers[k].target_id = None}

\* the requests that were waiting when the last call reached its assignment
\* phase: waiting before the call or appended by it, and not expired by it
WaitingAtAssignment ==
    {i \in DOMAIN mid.pending :
        /\ i \in New \/ pre.pending[i].status = "waiting"
        /\ mid.pending[i].status # "expired"}

\* the k-th smallest member of a set of list positions
Kth(S, k) == CHOOSE i \in S : Cardinality({j \in S : j < i}) = k - 1

Min(a, b) == IF a < b THEN a ELSE b

Matched == Min(Cardinality(IdleAtAssignment), Cardinality(WaitingAtAssignment))

\* C3: the assignment phase of a call pairs the k-th idle driver with the
\* k-th waiting request, for every k up to the smaller of the two counts:
\* that request carries the driver's id and is assigned, the driver carries
\* the request's id and is headed for its pickup point; waiting requests and
\* idle drivers beyond that count are left as they were.
C3_ListOrderMatching ==
    Called =>
      /\ \A k \in 1..Matched :
            LET d == mid.drivers[Kth(IdleAtAssignment, k)]
                r == mid.pending[Kth(WaitingAtAssignment, k)]
            IN /\ r.status = "assigned"
               /\ r.driver_id = d.id
               /\ d.target_id = r.id
               /\ <<d.tx, d.ty>> = <<r.px, r.py>>
      /\ \A k \in (Matched + 1)..Cardinality(WaitingAtAssignment) :
            LET r == mid.pending[Kth(WaitingAtAssignment, k)]
            IN r.status = "waiting" /\ r.driver_id = None
      /\ \A k \in (Matched + 1)..Cardinality(IdleAtAssignment) :
            mid.drivers[Kth(IdleAtAssignment, k)].target_id = None

\* two idle drivers met three waiting requests behind a request that is no
\* longer waiting, or one idle driver met two
C3_Witness ==
    /\ Called
    /\ Cardinality(IdleAtAssignment) >= 1
    /\ Cardinality(WaitingAtAssignment) > Cardinality(IdleAtAssignment)
    /\ 1 \notin WaitingAtAssignment

\* C4: after a call no request is waiting or assigned with an age above the
\* timeout.
C4_NoOverdueRequest ==
    Called =>
      \A i \in DOMAIN state.pending :
          state.pending[i].status \in {"waiting", "assigned"}
              => Age(state.pending[i]) <= state.timeout

\* a request that had a driver was overdue and the call expired it
C4_Witness ==
    \E i \in Old :
        /\ <<pre.pending[i].status, state.pending[i].status>> = <<"assigned", "expired">>
        /\ Age(state.pending[i]) > state.timeout

\* C5: a request that a call turns to expired is older than the timeout at
\* that tick and was waiting or assigned when the call was entered (or was
\* appended by the call).
C5_NoEarlyExpiry ==
    /\ \A i \in Old :
          (state.pending[i].status = "expired" /\ pre.pending[i].status # "expired")
              => /\ Age(state.pending[i]) > state.timeout
                 /\ pre.pending[i].status \in {"waiting", "assigned"}
    /\ \A i \in New :
          state.pending[i].status = "expired" => Age(state.pending[i]) > state.timeout

\* a request expires at the first tick its age is above the timeout, while one
\* whose age equals the timeout is kept
C5_Witness ==
    /\ \E i \in Old :
          /\ state.pending[i].status = "expired" /\ pre.pending[i].status # "expired"
          /\ Age(state.pending[i]) = state.timeout + 1
    /\ \E i \in DOMAIN state.pending :
          /\ state.pending[i].status \in {"waiting", "assigned"}
          /\ Age(state.pending[i]) = state.timeout

\* squared distance between a driver and a point
Dist2(driver, p) ==
    (driver.x - p[1]) * (driver.x - p[1]) + (driver.y - p[2]) * (driver.y - p[2])

\* the driver is less than tol = TolNum/TolDen away from the point
WithinTolerance(driver, p) == Dist2(driver, p) * TolDen * TolDen < TolNum * TolNum

Pickup(req) == <<req.px, req.py>>

Dropoff(req) == <<req.dx, req.dy>>

\* the list position of the driver with the given id, 0 if there is none
DriverAt(drivers, id) ==
    IF \E k \in DOMAIN drivers : drivers[k].id = id
        THEN CHOOSE k \in DOMAIN drivers : drivers[k].id = id
        ELSE 0

\* the requests that were picked when the last call was entered and whose
\* driver is within tolerance of the dropoff point after the call's movement
DueForDelivery ==
    {i \in Old :
        /\ pre.pending[i].status = "picked"
        /\ DriverAt(pre.drivers, pre.pending[i].driver_id) # 0
        /\ LET k == DriverAt(pre.drivers, pre.pending[i].driver_id)
           IN /\ pre.drivers[k].target_id = pre.pending[i].id
              /\ WithinTolerance(state.drivers[k], Dropoff(pre.pending[i]))}

AssignedAtPickup ==
    {i \in DOMAIN mid.pending :
        /\ \E c \in changes : c = <<i, "waiting", "assigned">>
        /\ DriverAt(mid.drivers, mid.pending[i].driver_id) # 0
        /\ WithinTolerance(mid.drivers[DriverAt(mid.drivers, mid.pending[i].driver_id)],
                           Pickup(mid.pending[i]))}

\* C8: a request that a call assigns to a driver already within tolerance of
\* its pickup point is picked when that call ends, and the driver's (tx,ty)
\* is then the request's dropoff point.
C8_PickedInSameStep ==
    \A i \in AssignedAtPickup :
        LET d == state.drivers[DriverAt(state.drivers, state.pending[i].driver_id)]
        IN /\ state.pending[i].status = "picked"
           /\ <<d.tx, d.ty>> = Dropoff(state.pending[i])

RECURSIVE Sum(_)
Sum(seq) == IF seq = <<>> THEN 0 ELSE Head(seq) + Sum(Tail(seq))

\* C10: a call that does not raise returns the pair (state, metrics) of the
\* updated state and a metrics dictionary whose served and expired are the
\* state's counters and whose avg_wait is the mean of served_waits.
C10_ReturnsStateAndMetrics ==
    (Called /\ raised = "none") =>
      /\ ret.kind = "pair"
      /\ ret.state = state
      /\ ret.metrics.served = state.served
      /\ ret.metrics.expired = state.expired
      /\ ret.metrics.avg_wait * Len(state.served_waits) = Sum(state.served_waits)

\* the fields of a request that say which request it is
Identity(req) == <<req.id, req.px, req.py, req.dx, req.dy, req.t>>

\* C11: over a call the pending list only grows at its end: every request
\* that was in the list is still at the same position with the same id,
\* pickup, dropoff and creation time, whatever its status.
C11_RequestsRetained ==
    /\ Len(state.pending) >= Len(pre.pending)
    /\ \A i \in Old :
          /\ i \in DOMAIN state.pending
          /\ Identity(state.pending[i]) = Identity(pre.pending[i])

\* a call appended a request behind one that was already expired and one that
\* it assigned
C11_Witness ==
    /\ New # {}
    /\ \E i \in Old : pre.pending[i].status = "expired"
    /\ \E c \in changes : c[3] = "assigned"

\* C17: a call leaves state t one above what it found, and t equals the
\* number of calls made since init_state.
C17_TimeAdvancesByOne ==
    /\ Called => state.t = pre.t + 1
    /\ state.t = calls

\* calls that found no driver, no request, only terminal requests, and a call
\* that raised
C17_Witness ==
    /\ calls >= 2
    /\ \/ state.drivers = <<>> /\ state.pending = <<>>
       \/ /\ pre.pending # <<>>
          /\ \A i \in Old : pre.pending[i].status \in {"delivered", "expired"}
          /\ New = {}
          /\ raised # "none"

\* C18: the expired counter is the number of requests whose status is
\* expired.
C18_ExpiredCounted ==
    state.expired = Cardinality({i \in DOMAIN state.pending :
                                    state.pending[i].status = "expired"})

\* a call expired one request next to one that an earlier call had expired
C18_Witness ==
    /\ \E i \in Old : pre.pending[i].status = "expired"
    /\ \E c \in changes : c[3] = "expired"
    /\ state.expired >= 2

C20_ReferencesConsistent ==
    Called =>
      \A k \in DOMAIN state.drivers :
          /\ \A i \in DOMAIN state.pending :
                (state.drivers[k].target_id = state.pending[i].id)
                    <=> (/\ Active(state.pending[i])
                         /\ state.pending[i].driver_id = state.drivers[k].id)
          /\ state.drivers[k].target_id # None
                => \E i \in DOMAIN state.pending :
                      state.drivers[k].target_id = state.pending[i].id

\* a line that has at least n comma-separated fields of which the first n
\* are numbers
WellFormed(line, n) ==
    /\ line.kind = "fields"
    /\ Len(line.parts) >= n
    /\ \A k \in 1..n : line.parts[k].num

WellFormedLines(file, n) == SelectSeq(file, LAMBDA line : WellFormed(line, n))

\* C12: a loader that has been called did not raise, whatever malformed lines
\* the file holds, and it returned one entry for each well-formed line of
\* the file, in file order.
C12_MalformedSkipped ==
    /\ Loaded(io.drivers) =>
          /\ io.drivers.raised = "none"
          /\ Len(io.drivers.value) = Len(WellFormedLines(io.drivers_txt, 2))
          /\ \A i \in DOMAIN io.drivers.value :
                <<io.drivers.value[i].x, io.drivers.value[i].y>>
                    = <<WellFormedLines(io.drivers_txt, 2)[i].parts[1].val,
                        WellFormedLines(io.drivers_txt, 2)[i].parts[2].val>>
    /\ Loaded(io.requests) =>
          /\ io.requests.raised = "none"
          /\ Len(io.requests.value) = Len(WellFormedLines(io.requests_txt, 5))
          /\ \A i \in DOMAIN io.requests.value :
                <<io.requests.value[i].t, io.requests.value[i].px, io.requests.value[i].py>>
                    = <<WellFormedLines(io.requests_txt, 5)[i].parts[1].val,
                        WellFormedLines(io.requests_txt, 5)[i].parts[2].val,
                        WellFormedLines(io.requests_txt, 5)[i].parts[3].val>>

\* C14: the simulation time and the clock never pass the horizon, and no
\* handler calls simulate_step with the clock at or past the horizon.
C14_NeverPastHorizon ==
    /\ app.clock <= app.horizon
    /\ state.t <= app.horizon
    /\ ~app.late

\* C16: Reset leaves the time and the clock at 0 and the application
\* stopped, and changes nothing else of the simulation state.
C16_ResetOnlyClock ==
    app.last = "reset" =>
        /\ state.t = 0
        /\ app.clock = 0
        /\ ~app.running
        /\ [state EXCEPT !.t = pre.t] = pre

\* Reset was pressed at a time above 0 with an assigned request, a driver on
\* its way and an expired request counted
C16_Witness ==
    /\ app.last = "reset"
    /\ pre.t > 0
    /\ pre.expired > 0
    /\ \E i \in DOMAIN pre.pending : pre.pending[i].status = "assigned"
    /\ \E k \in DOMAIN pre.drivers : pre.drivers[k].target_id # None

C21_DriverReleased ==
    Called =>
      \A k \in DOMAIN pre.drivers : \A i \in Old :
          (/\ pre.drivers[k].target_id = pre.pending[i].id
           /\ pre.pending[i].status = "expired")
              => state.drivers[k].target_id # pre.pending[i].id

\* C22: a call of simulate_step on a state built by init_state and earlier
\* calls ends without an exception.
C22_CompletesWithoutRaising == raised = "none"

\* C24: a request that a call assigns was created no later than the time of
\* the call, and no recorded wait is negative.
C24_NoDispatchBeforeCreation ==
    /\ \A c \in changes : c[3] = "assigned" => mid.pending[c[1]].t <= mid.t
    /\ \A n \in DOMAIN state.served_waits : state.served_waits[n] >= 0

\* C25: after a call every request older than the timeout is delivered or
\* expired, whatever status it had, and a request that was delivered or
\* expired when the call was entered has kept its status.
C25_AllReachTerminal ==
    Called =>
        /\ \A i \in DOMAIN state.pending :
              Age(state.pending[i]) > state.timeout
                  => state.pending[i].status \in {"delivered", "expired"}
        /\ \A i \in Old :
              pre.pending[i].status \in {"delivered", "expired"}
                  => state.pending[i].status = pre.pending[i].status

\* every request of the list has ended, one that had a driver and one that
\* never had, and two of them in the same call
C25_Witness ==
    /\ Len(state.pending) >= 3
    /\ \A i \in DOMAIN state.pending :
          state.pending[i].status \in {"delivered", "expired"}
    /\ \E i \in DOMAIN state.pending : state.pending[i].driver_id # None
    /\ \E i \in DOMAIN state.pending : state.pending[i].driver_id = None
    /\ Cardinality({c \in changes : c[3] = "expired"}) >= 2

C26_TargetByStatus ==
    \A g \in movement.targets :
        \/ g[3] = "assigned" /\ g[4] = Pickup(mid.pending[g[2]])
        \/ g[3] = "picked" /\ g[4] = Dropoff(mid.pending[g[2]])

\* the requests of the list with a status in sts, in list order
WithStatus(pending, sts) == SelectSeq(pending, LAMBDA r : r.status \in sts)

\* C27: the plot data hold the pickup point of each waiting or assigned
\* request and of no other, the dropoff point of each picked request and of
\* no other, one driver position per driver, and the state's counters.
C27_PlotPartition ==
    plot # NoPlot =>
        LET p == WithStatus(state.pending, {"waiting", "assigned"})
            d == WithStatus(state.pending, {"picked"})
            gone == WithStatus(state.pending, {"delivered", "expired"})
        IN /\ plot.pickup_xy = [i \in DOMAIN p |-> Pickup(p[i])]
           /\ plot.dropoff_xy = [i \in DOMAIN d |-> Dropoff(d[i])]
           /\ Len(plot.pickup_xy) + Len(plot.dropoff_xy) + Len(gone) = Len(state.pending)
           /\ Len(plot.drivers_xy) = Len(state.drivers)
           /\ \A k \in DOMAIN state.drivers :
                 plot.drivers_xy[k] = <<state.drivers[k].x, state.drivers[k].y>>
           /\ plot.served = state.served
           /\ plot.expired = state.expired

\* plot data of a state with a picked request, a request that has ended, and
\* drivers
C27_Witness ==
    /\ Len(plot.dropoff_xy) = 1
    /\ plot.pickup_xy = <<>>
    /\ Len(plot.drivers_xy) = 2
    /\ \E i \in DOMAIN state.pending : state.pending[i].status \in {"delivered", "expired"}
    /\ plot.served + plot.expired = 1

\* C28: _adapter_init leaves the pending list in non-decreasing order of t,
\* requests of equal t in the order in which they were loaded, with the
\* time, the clock and the counters at 0; and when a call assigns a request,
\* no request that it leaves waiting was created earlier.
C28_SortedEarliestFirst ==
    /\ (app.last = "init" /\ app.error = "none") =>
          /\ \A i, j \in DOMAIN state.pending :
                i < j => \/ state.pending[i].t < state.pending[j].t
                         \/ /\ state.pending[i].t = state.pending[j].t
                            /\ state.pending[i].id < state.pending[j].id
          /\ state.t = 0
          /\ app.clock = 0
          /\ state.served = 0
          /\ state.expired = 0
    /\ \A c \in changes :
          c[3] = "assigned" =>
              \A j \in DOMAIN mid.pending :
                  mid.pending[j].status = "waiting"
                      => mid.pending[j].t >= mid.pending[c[1]].t

====
